---- MODULE Spec2Model ----
(***************************************************************************)
(* Model of the dynamic query construction layer of the Jobly backend:     *)
(*   helpers/sql.js      sqlForPartialUpdate                                *)
(*   models/company.js   Company.{create, findAll, update, #filterAll}      *)
(*   models/job.js       Job.{create, findAll, update, #filterAll}          *)
(*                                                                         *)
(* A JS string value is a sequence of one-character strings.  Query text   *)
(* is a sequence of strings: the constant chunks of a template literal,    *)
(* identifiers (object keys, column names) as whole strings, and the       *)
(* characters of every interpolated value.  Concatenation is \o.           *)
(***************************************************************************)
EXTENDS Integers, Sequences, FiniteSets, TLC

VARIABLES companies, jobs, nextId, call, ret, queries

vars == <<companies, jobs, nextId, call, ret, queries>>

(***************************************************************************)
(* Bounds of the model.                                                    *)
(***************************************************************************)
MaxKeys == 3
MaxJobs == 1
MaxCompanies == 2

(***************************************************************************)
(* JS values.                                                              *)
(***************************************************************************)
Str(s) == [type |-> "string", s |-> s]
Num(n) == [type |-> "number", n |-> n]
Bool(b) == [type |-> "boolean", b |-> b]
Null == [type |-> "null"]
Undefined == [type |-> "undefined"]

\* ToBoolean: false, 0, "", null and undefined are falsy.
Truthy(v) ==
    CASE v.type = "string" -> v.s # <<>>
      [] v.type = "number" -> v.n # 0
      [] v.type = "boolean" -> v.b
      [] v.type = "object" -> TRUE
      [] OTHER -> FALSE

DigitChar(d) == <<"0", "1", "2", "3", "4", "5", "6", "7", "8", "9">>[d + 1]

RECURSIVE Digits(_)
\* Number.prototype.toString for a non-negative integer.
Digits(n) ==
    IF n < 10 THEN <<DigitChar(n)>>
    ELSE Digits(n \div 10) \o <<DigitChar(n % 10)>>

\* ToString, as applied to a value substituted into a template literal.
ToStr(v) ==
    CASE v.type = "string" -> v.s
      [] v.type = "number" -> Digits(v.n)
      [] v.type = "boolean" -> IF v.b THEN <<"t", "r", "u", "e">>
                                      ELSE <<"f", "a", "l", "s", "e">>
      [] v.type = "null" -> <<"n", "u", "l", "l">>
      [] OTHER -> <<"u", "n", "d", "e", "f", "i", "n", "e", "d">>

\* An identifier substituted into a template literal.
Ident(name) == IF name = "" THEN <<>> ELSE <<name>>

(***************************************************************************)
(* JS objects: a sequence of [k, v] entries in property order.             *)
(***************************************************************************)
ObjectKeys(obj) == [i \in 1..Len(obj) |-> obj[i].k]
ObjectValues(obj) == [i \in 1..Len(obj) |-> obj[i].v]
HasKey(obj, key) == \E i \in 1..Len(obj) : obj[i].k = key
\* obj[key]: undefined for a missing property.
Prop(obj, key) ==
    IF HasKey(obj, key)
    THEN obj[CHOOSE i \in 1..Len(obj) : obj[i].k = key].v
    ELSE Undefined

RECURSIVE Join(_, _)
\* Array.prototype.join
Join(parts, sep) ==
    IF Len(parts) = 0 THEN <<>>
    ELSE IF Len(parts) = 1 THEN parts[1]
    ELSE parts[1] \o <<sep>> \o Join(Tail(parts), sep)

\* Sequences over S of length at most n without repeated elements.
RECURSIVE InjSeqs(_, _)
InjSeqs(S, n) ==
    IF n = 0 THEN {<<>>}
    ELSE LET shorter == InjSeqs(S, n - 1)
             longer == {Append(q, x) : q \in shorter, x \in S}
         IN shorter \cup
            {q \in longer : \A i, j \in 1..Len(q) : i # j => q[i] # q[j]}

(***************************************************************************)
(* Outcomes of a call.                                                     *)
(***************************************************************************)
Idle == [status |-> "idle"]
Pending == [status |-> "pending"]
Ok(value) == [status |-> "ok", value |-> value]
Throw(error) == [status |-> error]

(***************************************************************************)
(* helpers/sql.js                                                          *)
(***************************************************************************)
\* Mutation: the alias map is never consulted.
ColumnName_NoAlias(jsToSql, colName) == colName

\* jsToSql[colName] || colName, jsToSql a function from keys to column names
ColumnName(jsToSql, colName) ==
    IF colName \in DOMAIN jsToSql /\ jsToSql[colName] # ""
    THEN jsToSql[colName]
    ELSE colName

\* Mutation: the placeholder carries the 0-based index.
SetColFragment_ZeroBased(jsToSql, colName, idx) ==
    <<"\"">> \o Ident(ColumnName(jsToSql, colName)) \o <<"\"=$">> \o Digits(idx)

\* `"${jsToSql[colName] || colName}"=$${idx + 1}`, idx 0-based
SetColFragment(jsToSql, colName, idx) ==
    <<"\"">> \o Ident(ColumnName(jsToSql, colName)) \o <<"\"=$">> \o Digits(idx + 1)

\* Mutation: the new value is written into the assignment instead of $n.
sqlForPartialUpdate_Inlined(dataToUpdate, jsToSql) ==
    LET keys == ObjectKeys(dataToUpdate)
        cols == [i \in 1..Len(keys) |->
                   <<"\"">> \o Ident(ColumnName(jsToSql, keys[i])) \o <<"\"='">>
                      \o ToStr(dataToUpdate[i].v) \o <<"'">>]
    IN IF Len(keys) = 0 THEN Throw("BadRequestError")
       ELSE Ok([setCols |-> Join(cols, ", "),
                values |-> ObjectValues(dataToUpdate)])

\* Mutation: the payload is not checked for keys.
sqlForPartialUpdate_Unchecked(dataToUpdate, jsToSql) ==
    LET keys == ObjectKeys(dataToUpdate)
        cols == [i \in 1..Len(keys) |-> SetColFragment(jsToSql, keys[i], i - 1)]
    IN Ok([setCols |-> Join(cols, ", "), values |-> ObjectValues(dataToUpdate)])

sqlForPartialUpdate(dataToUpdate, jsToSql) ==
    LET keys == ObjectKeys(dataToUpdate)
        cols == [i \in 1..Len(keys) |-> SetColFragment(jsToSql, keys[i], i - 1)]
    IN IF Len(keys) = 0 THEN Throw("BadRequestError")
       ELSE Ok([setCols |-> Join(cols, ", "),
                values |-> ObjectValues(dataToUpdate)])

(***************************************************************************)
(* Inputs of sqlForPartialUpdate.                                          *)
(***************************************************************************)
UpdateKeys == {"name", "numEmployees", "logoUrl"}
UpdateValues == {Str(<<"C", "1">>), Num(1), Null}
AliasNames == {"", "num_employees", "logo_url"}

Objects(keySet, valuesOf(_), n) ==
    UNION {{[i \in 1..Len(ks) |-> [k |-> ks[i], v |-> vs[i]]] :
              vs \in {f \in [1..Len(ks) -> UNION {valuesOf(k) : k \in keySet}] :
                        \A i \in 1..Len(ks) : f[i] \in valuesOf(ks[i])}} :
           ks \in InjSeqs(keySet, n)}

UpdateValuesOf(k) == UpdateValues
Payloads == Objects(UpdateKeys, UpdateValuesOf, MaxKeys)
AliasMaps == UNION {[D -> AliasNames] : D \in SUBSET UpdateKeys}

(***************************************************************************)
(* Specification of the pure helper: Init draws the arguments, the action  *)
(* applies the function.                                                   *)
(***************************************************************************)
InitSql ==
    /\ companies = {}
    /\ jobs = {}
    /\ nextId = 1
    /\ queries = <<>>
    /\ ret = Pending
    /\ \E data \in Payloads, jsToSql \in AliasMaps :
          call = [op |-> "sqlForPartialUpdate", dataToUpdate |-> data, jsToSql |-> jsToSql]

SqlForPartialUpdate ==
    /\ call.op = "sqlForPartialUpdate"
    /\ ret = Pending
    /\ ret' = sqlForPartialUpdate(call.dataToUpdate, call.jsToSql)
    /\ UNCHANGED <<companies, jobs, nextId, call, queries>>

NextSql == SqlForPartialUpdate

SpecSql == InitSql /\ [][NextSql]_vars

(***************************************************************************)
(* Reading query text back: what the store sees in a SET clause.           *)
(***************************************************************************)
Occurs(text, chunk) == \E i \in 1..Len(text) : text[i] = chunk
FirstIndex(text, chunk) ==
    CHOOSE i \in 1..Len(text) :
        text[i] = chunk /\ \A j \in 1..(i - 1) : text[j] # chunk

RECURSIVE SplitOn(_, _)
SplitOn(text, sep) ==
    IF ~Occurs(text, sep) THEN <<text>>
    ELSE LET i == FirstIndex(text, sep)
         IN <<SubSeq(text, 1, i - 1)>> \o SplitOn(SubSeq(text, i + 1, Len(text)), sep)

IsDigit(c) == \E d \in 0..9 : DigitChar(d) = c
DigitValue(c) == CHOOSE d \in 0..9 : DigitChar(d) = c

RECURSIVE ParseNat(_)
\* The number a non-empty run of digits denotes; -1 for anything else.
ParseNat(chars) ==
    IF Len(chars) = 0 \/ ~IsDigit(chars[Len(chars)]) THEN -1
    ELSE IF Len(chars) = 1 THEN DigitValue(chars[1])
    ELSE LET high == ParseNat(SubSeq(chars, 1, Len(chars) - 1))
         IN IF high < 0 THEN -1 ELSE 10 * high + DigitValue(chars[Len(chars)])

\* The string without its leading and trailing spaces.
Trim(chars) ==
    LET inked == {i \in DOMAIN chars : chars[i] # " "}
    IN IF inked = {} THEN <<>>
       ELSE SubSeq(chars, CHOOSE i \in inked : \A j \in inked : i <= j,
                          CHOOSE i \in inked : \A j \in inked : i >= j)

\* One assignment of a SET clause: "column"=$n
IsAssignment(frag) ==
    /\ Len(frag) >= 3
    /\ frag[1] = "\""
    /\ Occurs(frag, "\"=$")
    /\ ParseNat(SubSeq(frag, FirstIndex(frag, "\"=$") + 1, Len(frag))) >= 0
\* The text between the double quotes (empty, or one identifier).
QuotedColumn(frag) == SubSeq(frag, 2, FirstIndex(frag, "\"=$") - 1)
PlaceholderOf(frag) == ParseNat(SubSeq(frag, FirstIndex(frag, "\"=$") + 1, Len(frag)))

(***************************************************************************)
(* The store behind db.query: two tables and the statements the models     *)
(* send.  A row is a record over the table's column names holding JS       *)
(* values (id and handle included); equity, a NUMERIC column, is held as a *)
(* number.                                                                 *)
(***************************************************************************)
\* Code points of the characters used in stored and filter strings.
CharCode(c) ==
    CASE c = "1" -> 49 [] c = "2" -> 50 [] c = "C" -> 67 [] c = "J" -> 74
      [] c = "c" -> 99 [] c = "j" -> 106 [] OTHER -> 0

\* lower()
LowerChar(c) == CASE c = "C" -> "c" [] c = "J" -> "j" [] OTHER -> c
Lower(s) == [i \in 1..Len(s) |-> LowerChar(s[i])]

\* s LIKE '%' || sub || '%', sub free of % and _
Contains(s, sub) ==
    \E i \in 0..(Len(s) - Len(sub)) : SubSeq(s, i + 1, i + Len(sub)) = sub

RECURSIVE StrLeq(_, _)
StrLeq(a, b) ==
    IF Len(a) = 0 THEN TRUE
    ELSE IF Len(b) = 0 THEN FALSE
    ELSE IF a[1] # b[1] THEN CharCode(a[1]) < CharCode(b[1])
    ELSE StrLeq(Tail(a), Tail(b))

RECURSIVE SkipSpaces(_)
SkipSpaces(text) ==
    IF Len(text) > 0 /\ text[1] = " " THEN SkipSpaces(Tail(text)) ELSE text

RECURSIVE DigitRun(_)
\* The longest prefix of digits.
DigitRun(text) ==
    IF Len(text) > 0 /\ IsDigit(text[1]) THEN <<text[1]>> \o DigitRun(Tail(text)) ELSE <<>>

SyntaxError == [ok |-> FALSE]

\* One comparison of a WHERE clause, at the head of text.
ParsePredicate(text) ==
    IF Len(text) = 0 THEN SyntaxError
    ELSE IF text[1] \in {"lower(title) LIKE lower('%' || '", "lower(name) LIKE lower('%' || '"}
    THEN IF ~Occurs(text, "' || '%')") THEN SyntaxError
         ELSE LET close == FirstIndex(text, "' || '%')")
                  literal == SubSeq(text, 2, close - 1)
              IN IF Occurs(literal, "'") THEN SyntaxError
                 ELSE [ok |-> TRUE,
                       pred |-> [col |-> IF text[1] = "lower(title) LIKE lower('%' || '"
                                         THEN "title" ELSE "name",
                                 op |-> "ilike", arg |-> Str(literal)],
                       rest |-> SubSeq(text, close + 1, Len(text))]
    ELSE IF text[1] = "salary >= "
    THEN LET digits == DigitRun(Tail(text))
         IN IF digits = <<>> THEN SyntaxError
            ELSE [ok |-> TRUE,
                  pred |-> [col |-> "salary", op |-> ">=", arg |-> Num(ParseNat(digits))],
                  rest |-> SubSeq(text, 2 + Len(digits), Len(text))]
    ELSE IF text[1] = "equity > 0"
    THEN [ok |-> TRUE, pred |-> [col |-> "equity", op |-> ">", arg |-> Num(0)],
          rest |-> Tail(text)]
    ELSE IF text[1] = "num_employees "
    THEN IF Len(text) < 4 \/ text[2] \notin {">=", "<"} \/ text[3] # " " THEN SyntaxError
         ELSE LET digits == DigitRun(SubSeq(text, 4, Len(text)))
              IN IF digits = <<>> THEN SyntaxError
                 ELSE [ok |-> TRUE,
                       pred |-> [col |-> "num_employees", op |-> text[2],
                                 arg |-> Num(ParseNat(digits))],
                       rest |-> SubSeq(text, 4 + Len(digits), Len(text))]
    ELSE SyntaxError

RECURSIVE ParseClause(_, _)
\* The text between FROM <table> and ORDER BY: nothing, or WHERE p AND p ...
ParseClause(text, first) ==
    LET t == SkipSpaces(text)
    IN IF Len(t) = 0 THEN [ok |-> TRUE, preds |-> <<>>]
       ELSE IF t[1] # (IF first THEN "\nWHERE" ELSE "\nAND") THEN SyntaxError
       ELSE LET p == ParsePredicate(SkipSpaces(Tail(t)))
            IN IF ~p.ok THEN SyntaxError
               ELSE LET more == ParseClause(p.rest, FALSE)
                    IN IF ~more.ok THEN SyntaxError
                       ELSE [ok |-> TRUE, preds |-> <<p.pred>> \o more.preds]

\* A comparison with NULL is not true.
Satisfies(row, pred) ==
    LET v == row[pred.col]
    IN CASE pred.op = "ilike" ->
               v.type = "string" /\ Contains(Lower(v.s), Lower(pred.arg.s))
         [] pred.op = ">=" -> v.type = "number" /\ v.n >= pred.arg.n
         [] pred.op = ">" -> v.type = "number" /\ v.n > pred.arg.n
         [] pred.op = "<" -> v.type = "number" /\ v.n < pred.arg.n

Matching(table, preds) ==
    {row \in table : \A i \in 1..Len(preds) : Satisfies(row, preds[i])}

\* The orders ORDER BY col may return a set of rows in.
Ordered(rows, col) ==
    {q \in [1..Cardinality(rows) -> rows] :
        /\ \A i, j \in DOMAIN q : i # j => q[i] # q[j]
        /\ \A i, j \in DOMAIN q : i < j => StrLeq(q[i][col].s, q[j][col].s)}

\* SELECT ... FROM table <clause> ORDER BY col: the possible results.
DbSelect(table, clause, col) ==
    LET parsed == ParseClause(clause, TRUE)
    IN IF ~parsed.ok THEN {Throw("DbError")}
       ELSE {Ok(q) : q \in Ordered(Matching(table, parsed.preds), col)}

\* UPDATE table SET <setCols>: the assignments as [col, param], or an error.
ParseSet(setCols, columns, nparams) ==
    LET frags == SplitOn(setCols, ", ")
        wellFormed(frag) ==
            /\ IsAssignment(frag)
            /\ Len(QuotedColumn(frag)) = 1
            /\ QuotedColumn(frag)[1] \in columns
            /\ PlaceholderOf(frag) \in 1..nparams
    IN IF /\ \A k \in 1..Len(frags) : wellFormed(frags[k])
          /\ \A k, l \in 1..Len(frags) :
                k # l => QuotedColumn(frags[k]) # QuotedColumn(frags[l])
       THEN [ok |-> TRUE,
             sets |-> [i \in 1..Len(frags) |->
                         [col |-> QuotedColumn(frags[i])[1], param |-> PlaceholderOf(frags[i])]]]
       ELSE SyntaxError

\* The row after the assignments, values taken from the parameter list.
Assigned(row, sets, params) ==
    [c \in DOMAIN row |->
        IF \E i \in 1..Len(sets) : sets[i].col = c
        THEN params[sets[CHOOSE i \in 1..Len(sets) : sets[i].col = c].param]
        ELSE row[c]]

\* The operand after WHERE <key> = : a number written in the text or $n.
ParseOperand(text, params) ==
    IF Len(text) > 0 /\ text[1] = "$"
    THEN LET n == ParseNat(Tail(text))
         IN IF n \in 1..Len(params) THEN [ok |-> TRUE, v |-> params[n]] ELSE SyntaxError
    ELSE LET n == ParseNat(text)
         IN IF n >= 0 THEN [ok |-> TRUE, v |-> Num(n)] ELSE SyntaxError

\* Comparison of a key column with an operand: a numeric column accepts a
\* number or a string of digits.
KeyEquals(v, operand) ==
    IF v.type = "number"
    THEN \/ operand.type = "number" /\ operand.n = v.n
         \/ operand.type = "string" /\ ParseNat(Trim(operand.s)) = v.n
    ELSE operand = v

JobView(row) ==
    [id |-> row.id, title |-> row.title, salary |-> row.salary, equity |-> row.equity,
     companyHandle |-> row.company_handle]

CompanyView(row) ==
    [handle |-> row.handle, name |-> row.name, description |-> row.description,
     numEmployees |-> row.num_employees, logoUrl |-> row.logo_url]

RECURSIVE Concat(_)
\* keys.reduce((obj, ...) => obj += piece, ''): the pieces in order.
Concat(pieces) ==
    IF Len(pieces) = 0 THEN <<>> ELSE pieces[1] \o Concat(Tail(pieces))

\* Variant: no id is rejected.
IsNaN_Never(v) == FALSE

\* isNaN(id): Number(id) is NaN.  Number of a string trims it first;
\* Number(""), Number(" ") and Number(null) are 0.
IsNaN(v) ==
    CASE v.type = "number" -> FALSE
      [] v.type = "string" -> Trim(v.s) # <<>> /\ ParseNat(Trim(v.s)) < 0
      [] v.type = "undefined" -> TRUE
      [] OTHER -> FALSE

\* Mutation: a > b.
GreaterEq_Strict(a, b) == a.type = "number" /\ b.type = "number" /\ a.n > b.n

\* a >= b on what the filters hold: false when either side is undefined.
GreaterEq(a, b) == a.type = "number" /\ b.type = "number" /\ a.n >= b.n

Obj(entries) == [type |-> "object", entries |-> entries]

(***************************************************************************)
(* models/job.js                                                           *)
(***************************************************************************)
\* The text one key adds to the clause, idx 0-based.
JobFilterPiece(val, value, idx) ==
    (IF idx = 0 /\ Truthy(value) THEN <<"\nWHERE">>
     ELSE IF val = "hasEquity" /\ ~Truthy(value) THEN <<>> ELSE <<"\nAND">>)
    \o <<" ">>
    \o (IF val = "title"
        THEN <<"lower(title) LIKE lower('%' || '">> \o ToStr(value) \o <<"' || '%')">>
        ELSE IF val = "minSalary" THEN <<"salary >= ">> \o ToStr(value)
        ELSE IF val = "hasEquity" /\ Truthy(value) THEN <<"equity > 0">> ELSE <<>>)

\* Job.#filterAll: undefined without filters, else the clause text.
JobFilterAll(filters) ==
    IF ~Truthy(filters) THEN Undefined
    ELSE LET keys == ObjectKeys(filters.entries)
             values == ObjectValues(filters.entries)
         IN Str(Concat([i \in 1..Len(keys) |-> JobFilterPiece(keys[i], values[i], i - 1)]))

JobSelectHead ==
    "SELECT id, title, salary, equity, company_handle AS \"companyHandle\" FROM jobs "
JobReturning ==
    " RETURNING id, title, salary, equity, company_handle AS \"companyHandle\""

\* Mutation: the clause is interpolated without the `query ? query : ''` test.
JobFindAllSql_Unguarded(filters) ==
    <<JobSelectHead>> \o ToStr(JobFilterAll(filters)) \o <<" ORDER BY title">>

\* The statement Job.findAll sends.
JobFindAllSql(filters) ==
    LET query == JobFilterAll(filters)
    IN <<JobSelectHead>> \o (IF Truthy(query) THEN query.s ELSE <<>>) \o <<" ORDER BY title">>

JobSelectById ==
    "SELECT id, title, salary, equity, company_handle AS \"companyHandle\" FROM jobs WHERE id = $1"

\* The statement Job.update sends, after its two checks.
JobUpdateSql(id, setCols) ==
    <<"UPDATE jobs SET ">> \o setCols \o <<" WHERE id = ">> \o ToStr(id) \o <<JobReturning>>

(***************************************************************************)
(* models/company.js                                                       *)
(***************************************************************************)
\* Mutation: maxEmployees compares with <= .
CompanyFilterPiece_Inclusive(val, value, idx) ==
    (IF idx = 0 THEN <<"\nWHERE">> ELSE <<"\nAND">>)
    \o <<" ">>
    \o (IF val = "name"
        THEN <<"lower(name) LIKE lower('%' || '">> \o ToStr(value) \o <<"' || '%')">>
        ELSE <<"num_employees ", IF val = "minEmployees" THEN ">=" ELSE "<=", " ">>
                \o ToStr(value))

\* Variant: a key other than name, minEmployees and maxEmployees is skipped.
CompanyFilterPiece_KnownOnly(val, value, idx) ==
    IF val \notin {"name", "minEmployees", "maxEmployees"} THEN <<>>
    ELSE (IF idx = 0 THEN <<"\nWHERE">> ELSE <<"\nAND">>)
         \o <<" ">>
         \o (IF val = "name"
             THEN <<"lower(name) LIKE lower('%' || '">> \o ToStr(value) \o <<"' || '%')">>
             ELSE <<"num_employees ", IF val = "minEmployees" THEN ">=" ELSE "<", " ">>
                     \o ToStr(value))

CompanyFilterPiece(val, value, idx) ==
    (IF idx = 0 THEN <<"\nWHERE">> ELSE <<"\nAND">>)
    \o <<" ">>
    \o (IF val = "name"
        THEN <<"lower(name) LIKE lower('%' || '">> \o ToStr(value) \o <<"' || '%')">>
        ELSE <<"num_employees ", IF val = "minEmployees" THEN ">=" ELSE "<", " ">>
                \o ToStr(value))

\* Company.#filterAll: undefined without filters, BadRequestError for an
\* empty range, else the clause text.
CompanyFilterAll(filters) ==
    IF ~Truthy(filters) THEN Ok(Undefined)
    ELSE IF GreaterEq(Prop(filters.entries, "minEmployees"),
                      Prop(filters.entries, "maxEmployees"))
    THEN Throw("BadRequestError")
    ELSE LET keys == ObjectKeys(filters.entries)
             values == ObjectValues(filters.entries)
         IN Ok(Str(Concat([i \in 1..Len(keys) |->
                              CompanyFilterPiece(keys[i], values[i], i - 1)])))

CompanySelectHead ==
    "SELECT handle, name, description, num_employees AS \"numEmployees\", logo_url AS \"logoUrl\" FROM companies "
CompanyReturning ==
    " RETURNING handle, name, description, num_employees AS \"numEmployees\", logo_url AS \"logoUrl\""

\* The statement Company.findAll sends for the clause #filterAll returned.
CompanyFindAllSql(query) ==
    <<CompanySelectHead>> \o (IF Truthy(query) THEN query.s ELSE <<>>) \o <<" ORDER BY name">>

CompanySelectByHandle ==
    "SELECT handle, c.name, c.description, c.num_employees AS \"numEmployees\", c.logo_url AS \"logoUrl\", j.id, j.title, j.salary, j.equity FROM companies c LEFT JOIN jobs j ON j.company_handle = c.handle WHERE c.handle = $1"

CompanyJsToSql == [k \in {"numEmployees", "logoUrl"} |->
                     IF k = "numEmployees" THEN "num_employees" ELSE "logo_url"]

\* "$" + (values.length + 1)
HandleVarIdx(values) == <<"$">> \o Digits(Len(values) + 1)

CompanyUpdateSql(setCols, values) ==
    <<"UPDATE companies SET ">> \o setCols \o <<" WHERE handle = ">>
        \o HandleVarIdx(values) \o <<CompanyReturning>>

(***************************************************************************)
(* db.query for the statements above.                                      *)
(***************************************************************************)
\* UPDATE <table> SET <setCols> WHERE <key> = <operand> RETURNING ...
\* [ok, table, rows]: the table afterwards and the rows returned.
DbUpdate(table, text, params, columns, where, key) ==
    IF ~Occurs(text, where) THEN SyntaxError
    ELSE LET w == FirstIndex(text, where)
             set == ParseSet(SubSeq(text, 2, w - 1), columns, Len(params))
             operand == ParseOperand(SubSeq(text, w + 1, Len(text) - 1), params)
         IN IF ~set.ok \/ ~operand.ok THEN SyntaxError
            ELSE LET hit == {row \in table : KeyEquals(row[key], operand.v)}
                 IN [ok |-> TRUE,
                     table |-> (table \ hit) \cup {Assigned(row, set.sets, params) : row \in hit},
                     rows |-> {Assigned(row, set.sets, params) : row \in hit}]

(***************************************************************************)
(* Inputs of the model operations.                                         *)
(***************************************************************************)
C1Handle == Str(<<"c", "1">>)
C2Handle == Str(<<"c", "2">>)

JobTitles == {Str(<<"j", "1">>), Str(<<"J", "2">>)}
JobData ==
    [title : JobTitles, salary : {Num(0), Num(1)}, equity : {Null, Num(0), Num(1)},
     company_handle : {C1Handle}]

JobFilterValuesOf(k) ==
    CASE k = "title" -> {Str(<<>>), Str(<<"J">>), Str(<<"2">>)}
      [] k = "minSalary" -> {Num(0), Num(1), Num(10)}
      [] k = "hasEquity" -> {Bool(TRUE), Bool(FALSE)}
JobFilters ==
    {Null} \cup {Obj(o) : o \in Objects({"title", "minSalary", "hasEquity"},
                                         JobFilterValuesOf, MaxKeys)}

CompanyNames == {Str(<<"C", "1">>), Str(<<"c", "2">>)}
CompanyData ==
    [handle : {C1Handle, C2Handle}, name : CompanyNames, description : {Str(<<"d">>)},
     numEmployees : {Num(1), Num(2)}, logoUrl : {Null}]
OneCompany ==
    {[handle |-> C1Handle, name |-> Str(<<"C", "1">>), description |-> Str(<<"d">>),
      numEmployees |-> Num(1), logoUrl |-> Null]}

CompanyFilterValuesOf(k) ==
    CASE k = "name" -> {Str(<<>>), Str(<<"C">>), Str(<<"2">>)}
      [] k = "minEmployees" -> {Num(0), Num(1), Num(2)}
      [] k = "maxEmployees" -> {Num(1), Num(2), Num(3)}
CompanyFilters ==
    {Null} \cup {Obj(o) : o \in Objects({"name", "minEmployees", "maxEmployees"},
                                         CompanyFilterValuesOf, MaxKeys)}

\* Filter objects that may also carry a key the listing does not know.
CompanyFilterValuesWide(k) ==
    IF k = "industry" THEN {Num(2), Str(<<"C">>)} ELSE CompanyFilterValuesOf(k)
CompanyFiltersWide ==
    {Obj(o) : o \in Objects({"name", "minEmployees", "maxEmployees", "industry"},
                            CompanyFilterValuesWide, MaxKeys)}

(***************************************************************************)
(* State and operations.  A call runs to completion in one step; Return is *)
(* the caller taking the outcome, after which the next call may start.     *)
(***************************************************************************)
Init ==
    /\ companies = {}
    /\ jobs = {}
    /\ nextId = 1
    /\ call = [op |-> "none"]
    /\ ret = Idle
    /\ queries = <<>>

Return ==
    /\ ret.status \notin {"idle", "pending"}
    /\ ret' = Idle
    /\ call' = [op |-> "none"]
    /\ queries' = <<>>
    /\ UNCHANGED <<companies, jobs, nextId>>

\* Job.create: one INSERT; the id sequence advances whether or not the
\* company_handle foreign key lets the row in.
JobCreate(data) ==
    /\ ret = Idle
    /\ nextId <= MaxJobs
    /\ call' = [op |-> "Job.create", data |-> data]
    /\ LET row == [id |-> Num(nextId), title |-> data.title, salary |-> data.salary,
                   equity |-> data.equity, company_handle |-> data.company_handle]
           known == \E c \in companies : c.handle = data.company_handle
       IN /\ queries' =
                <<[text |-> <<"INSERT INTO jobs (title, salary, equity, company_handle) VALUES ($1, $2, $3, $4)",
                              JobReturning>>,
                   params |-> <<data.title, data.salary, data.equity, data.company_handle>>]>>
          /\ nextId' = nextId + 1
          /\ jobs' = IF known THEN jobs \cup {row} ELSE jobs
          /\ ret' = IF known THEN Ok(JobView(row)) ELSE Throw("DbError")
    /\ UNCHANGED companies

\* Job.findAll
JobFindAll(filters) ==
    /\ ret = Idle
    /\ call' = [op |-> "Job.findAll", filters |-> filters]
    /\ LET text == JobFindAllSql(filters)
       IN /\ queries' = <<[text |-> text, params |-> <<>>]>>
          /\ \E res \in DbSelect(jobs, SubSeq(text, 2, Len(text) - 1), "title") :
                ret' = IF res.status = "ok"
                       THEN Ok([i \in DOMAIN res.value |-> JobView(res.value[i])])
                       ELSE res
    /\ UNCHANGED <<companies, jobs, nextId>>

\* Job.update
JobUpdate(id, data) ==
    /\ ret = Idle
    /\ call' = [op |-> "Job.update", id |-> id, data |-> data]
    /\ IF IsNaN(id)
       THEN ret' = Throw("NotFoundError") /\ queries' = <<>> /\ jobs' = jobs
       ELSE LET sql == sqlForPartialUpdate(data, <<>>)
            IN IF sql.status # "ok"
               THEN ret' = sql /\ queries' = <<>> /\ jobs' = jobs
               ELSE LET text == JobUpdateSql(id, sql.value.setCols)
                        params == sql.value.values
                        res == DbUpdate(jobs, text, params,
                                        {"id", "title", "salary", "equity", "company_handle"},
                                        " WHERE id = ", "id")
                    IN /\ queries' = <<[text |-> text, params |-> params]>>
                       /\ IF ~res.ok
                          THEN ret' = Throw("DbError") /\ jobs' = jobs
                          ELSE /\ jobs' = res.table
                               /\ ret' = IF res.rows = {} THEN Throw("NotFoundError")
                                         ELSE Ok(JobView(CHOOSE row \in res.rows : TRUE))
    /\ UNCHANGED <<companies, nextId>>

\* Variant: the duplicate check finds nothing.
DuplicateCheck_Skipped(handle) == FALSE

\* duplicateCheck.rows[0]: a company with this handle is stored.
DuplicateCheck(handle) == \E c \in companies : c.handle = handle

\* Company.create: the duplicate check, then the INSERT.
CompanyCreate(data) ==
    /\ ret = Idle
    /\ LET duplicate == DuplicateCheck(data.handle)
           check == [text |-> <<"SELECT handle FROM companies WHERE handle = $1">>,
                     params |-> <<data.handle>>]
           row == [handle |-> data.handle, name |-> data.name,
                   description |-> data.description, num_employees |-> data.numEmployees,
                   logo_url |-> data.logoUrl]
       IN /\ duplicate \/ Cardinality(companies) < MaxCompanies
          /\ IF duplicate
             THEN /\ ret' = Throw("BadRequestError")
                  /\ queries' = <<check>>
                  /\ companies' = companies
             ELSE /\ ret' = Ok(CompanyView(row))
                  /\ queries' =
                        <<check,
                          [text |-> <<"INSERT INTO companies (handle, name, description, num_employees, logo_url) VALUES ($1, $2, $3, $4, $5)",
                                      CompanyReturning>>,
                           params |-> <<data.handle, data.name, data.description,
                                        data.numEmployees, data.logoUrl>>]>>
                  /\ companies' = companies \cup {row}
    /\ call' = [op |-> "Company.create", data |-> data]
    /\ UNCHANGED <<jobs, nextId>>

\* Company.findAll
CompanyFindAll(filters) ==
    /\ ret = Idle
    /\ call' = [op |-> "Company.findAll", filters |-> filters]
    /\ LET query == CompanyFilterAll(filters)
       IN IF query.status # "ok"
          THEN ret' = query /\ queries' = <<>>
          ELSE LET text == CompanyFindAllSql(query.value)
               IN /\ queries' = <<[text |-> text, params |-> <<>>]>>
                  /\ \E res \in DbSelect(companies, SubSeq(text, 2, Len(text) - 1), "name") :
                        ret' = IF res.status = "ok"
                               THEN Ok([i \in DOMAIN res.value |-> CompanyView(res.value[i])])
                               ELSE res
    /\ UNCHANGED <<companies, jobs, nextId>>

\* Company.update
CompanyUpdate(handle, data) ==
    /\ ret = Idle
    /\ call' = [op |-> "Company.update", handle |-> handle, data |-> data]
    /\ LET sql == sqlForPartialUpdate(data, CompanyJsToSql)
       IN IF sql.status # "ok"
          THEN ret' = sql /\ queries' = <<>> /\ companies' = companies
          ELSE LET text == CompanyUpdateSql(sql.value.setCols, sql.value.values)
                   params == sql.value.values \o <<handle>>
                   res == DbUpdate(companies, text, params,
                                   {"handle", "name", "description", "num_employees", "logo_url"},
                                   " WHERE handle = ", "handle")
               IN /\ queries' = <<[text |-> text, params |-> params]>>
                  /\ IF ~res.ok
                     THEN ret' = Throw("DbError") /\ companies' = companies
                     ELSE /\ companies' = res.table
                          /\ ret' = IF res.rows = {} THEN Throw("NotFoundError")
                                    ELSE Ok(CompanyView(CHOOSE row \in res.rows : TRUE))
    /\ UNCHANGED <<jobs, nextId>>

\* The orders a set of rows may come back in when the statement names none.
AnyOrder(rows) ==
    {q \in [1..Cardinality(rows) -> rows] : \A i, j \in DOMAIN q : i # j => q[i] # q[j]}

\* What the store accepts as a parameter compared with the integer column
\* id: a number, or a string that is digits once trimmed.
IntegerInput(v) ==
    \/ v.type = "number"
    \/ v.type = "string" /\ ParseNat(Trim(v.s)) >= 0

\* Job.get
JobGet(id) ==
    /\ ret = Idle
    /\ call' = [op |-> "Job.get", id |-> id]
    /\ IF IsNaN(id)
       THEN ret' = Throw("NotFoundError") /\ queries' = <<>>
       ELSE LET hit == {row \in jobs : KeyEquals(row.id, id)}
            IN /\ queries' = <<[text |-> <<JobSelectById>>, params |-> <<id>>]>>
               /\ ret' = IF ~IntegerInput(id) THEN Throw("DbError")
                         ELSE IF hit = {} THEN Throw("NotFoundError")
                         ELSE Ok(JobView(CHOOSE row \in hit : TRUE))
    /\ UNCHANGED <<companies, jobs, nextId>>

\* Job.remove
JobRemove(id) ==
    /\ ret = Idle
    /\ call' = [op |-> "Job.remove", id |-> id]
    /\ IF IsNaN(id)
       THEN ret' = Throw("NotFoundError") /\ queries' = <<>> /\ jobs' = jobs
       ELSE LET hit == {row \in jobs : KeyEquals(row.id, id)}
            IN /\ queries' = <<[text |-> <<"DELETE FROM jobs WHERE id = $1 RETURNING id">>,
                                params |-> <<id>>]>>
               /\ jobs' = jobs \ hit
               /\ ret' = IF ~IntegerInput(id) THEN Throw("DbError")
                         ELSE IF hit = {} THEN Throw("NotFoundError")
                         ELSE Ok(Undefined)
    /\ UNCHANGED <<companies, nextId>>

\* Company.get: the company with its jobs, from one LEFT JOIN.
CompanyGet(handle) ==
    /\ ret = Idle
    /\ call' = [op |-> "Company.get", handle |-> handle]
    /\ queries' = <<[text |-> <<CompanySelectByHandle>>, params |-> <<handle>>]>>
    /\ LET hit == {row \in companies : KeyEquals(row.handle, handle)}
           theirs == {row \in jobs : KeyEquals(row.company_handle, handle)}
       IN IF hit = {}
          THEN ret' = Throw("NotFoundError")
          ELSE \E q \in AnyOrder(theirs) :
                  ret' = Ok([company |-> CompanyView(CHOOSE row \in hit : TRUE),
                             jobs |-> [i \in DOMAIN q |->
                                         [id |-> q[i].id, title |-> q[i].title,
                                          salary |-> q[i].salary, equity |-> q[i].equity]]])
    /\ UNCHANGED <<companies, jobs, nextId>>

\* Company.remove; jobs.company_handle references companies ON DELETE CASCADE.
CompanyRemove(handle) ==
    /\ ret = Idle
    /\ call' = [op |-> "Company.remove", handle |-> handle]
    /\ queries' = <<[text |-> <<"DELETE FROM companies WHERE handle = $1 RETURNING handle">>,
                     params |-> <<handle>>]>>
    /\ LET hit == {row \in companies : KeyEquals(row.handle, handle)}
       IN /\ companies' = companies \ hit
          /\ jobs' = IF hit = {} THEN jobs
                     ELSE {row \in jobs : ~KeyEquals(row.company_handle, handle)}
          /\ ret' = IF hit = {} THEN Throw("NotFoundError") ELSE Ok(Undefined)
    /\ UNCHANGED nextId

\* A direct call of the helper: the arguments are passed, then
\* SqlForPartialUpdate computes the outcome.
SqlInvoke(dataToUpdate, jsToSql) ==
    /\ ret = Idle
    /\ call' = [op |-> "sqlForPartialUpdate", dataToUpdate |-> dataToUpdate,
                jsToSql |-> jsToSql]
    /\ ret' = Pending
    /\ UNCHANGED <<companies, jobs, nextId, queries>>

(***************************************************************************)
(* Create and update over both tables, with the helper called directly.    *)
(***************************************************************************)
NewJob == [title |-> Str(<<"j", "1">>), salary |-> Num(0), equity |-> Null,
           company_handle |-> C1Handle]

JobUpdateValuesOf(k) ==
    CASE k = "title" -> {Str(<<"J", "2">>)}
      [] k = "salary" -> {Null}
      [] k = "equity" -> {Num(1)}
JobUpdates == Objects({"title", "salary", "equity"}, JobUpdateValuesOf, MaxKeys)
JobIds == {Num(i) : i \in 1..(MaxJobs + 1)} \cup {Str(<<"1">>), Str(<<"n", "o", "p", "e">>), Str(<<" ">>)}

CompanyUpdateValuesOf(k) ==
    CASE k = "name" -> {Str(<<"c", "2">>)}
      [] k = "numEmployees" -> {Null}
      [] k = "logoUrl" -> {Str(<<"u">>)}
CompanyUpdates == Objects({"name", "numEmployees", "logoUrl"}, CompanyUpdateValuesOf, MaxKeys)

Next ==
    \/ \E data \in OneCompany : CompanyCreate(data)
    \/ JobCreate(NewJob)
    \/ \E id \in JobIds, data \in JobUpdates : JobUpdate(id, data)
    \/ \E handle \in {C1Handle, C2Handle}, data \in CompanyUpdates : CompanyUpdate(handle, data)
    \/ \E id \in JobIds : JobGet(id)
    \/ \E id \in JobIds : JobRemove(id)
    \/ \E handle \in {C1Handle, C2Handle} : CompanyGet(handle)
    \/ \E handle \in {C1Handle, C2Handle} : CompanyRemove(handle)
    \/ \E data \in CompanyUpdates, jsToSql \in {<<>>, CompanyJsToSql} : SqlInvoke(data, jsToSql)
    \/ SqlForPartialUpdate
    \/ Return

Spec == Init /\ [][Next]_vars

(***************************************************************************)
(* Job.findAll under every filter object, over tables of varied jobs.      *)
(***************************************************************************)
\* Companies alone: create, update, get and remove over two handles.
NextCompany ==
    \/ \E data \in CompanyData : CompanyCreate(data)
    \/ \E handle \in {C1Handle, C2Handle}, data \in CompanyUpdates : CompanyUpdate(handle, data)
    \/ \E handle \in {C1Handle, C2Handle} : CompanyGet(handle)
    \/ \E handle \in {C1Handle, C2Handle} : CompanyRemove(handle)
    \/ Return

SpecCompany == Init /\ [][NextCompany]_vars

NextJobFind ==
    \/ \E data \in OneCompany : CompanyCreate(data)
    \/ \E data \in JobData : JobCreate(data)
    \/ \E filters \in JobFilters : JobFindAll(filters)
    \/ Return

SpecJobFind == Init /\ [][NextJobFind]_vars

(***************************************************************************)
(* Company.findAll under every filter object, over varied companies.       *)
(***************************************************************************)
NextCompanyFind ==
    \/ \E data \in CompanyData : CompanyCreate(data)
    \/ \E filters \in CompanyFilters : CompanyFindAll(filters)
    \/ Return

SpecCompanyFind == Init /\ [][NextCompanyFind]_vars

\* The company listing with filter objects of any keys, over one company.
NextCompanyFilter ==
    \/ \E data \in OneCompany : CompanyCreate(data)
    \/ \E filters \in CompanyFiltersWide : CompanyFindAll(filters)
    \/ Return

SpecCompanyFilter == Init /\ [][NextCompanyFilter]_vars

(***************************************************************************)
(* Both listings called without a filter object, over both tables.         *)
(***************************************************************************)
NextList ==
    \/ \E data \in CompanyData : CompanyCreate(data)
    \/ \E data \in JobData : JobCreate(data)
    \/ JobFindAll(Null)
    \/ CompanyFindAll(Null)
    \/ Return

SpecList == Init /\ [][NextList]_vars

SqlReturned == call.op = "sqlForPartialUpdate" /\ ret.status \notin {"idle", "pending"}
SqlBuilt == call.op = "sqlForPartialUpdate" /\ ret.status = "ok"

(***************************************************************************)
(* Claims about sqlForPartialUpdate, checked under SpecSql.                *)
(***************************************************************************)

\* C1: for every non-empty payload and every alias map the call succeeds,
\* values are the payload's values in key order, setCols has exactly one
\* assignment per key, and the i-th assignment carries placeholder $i, so the
\* placeholders are 1..n without gaps or repeats and as many as the values.
C1_PlaceholdersNumberValues ==
    /\ (SqlReturned /\ Len(call.dataToUpdate) > 0) => ret.status = "ok"
    /\ SqlBuilt =>
          LET n == Len(call.dataToUpdate)
              frags == SplitOn(ret.value.setCols, ", ")
          IN /\ ret.value.values = [i \in 1..n |-> call.dataToUpdate[i].v]
             /\ Len(frags) = n
             /\ Len(ret.value.values) = n
             /\ \A i \in 1..n : IsAssignment(frags[i]) /\ PlaceholderOf(frags[i]) = i

C1_Witness ==
    /\ SqlBuilt
    /\ call.dataToUpdate = <<[k |-> "name", v |-> Str(<<"C", "1">>)],
                             [k |-> "numEmployees", v |-> Num(1)],
                             [k |-> "logoUrl", v |-> Null]>>
    /\ ret.value.setCols = <<"\"", "name", "\"=$", "1", ", ",
                             "\"", "num_employees", "\"=$", "2", ", ",
                             "\"", "logo_url", "\"=$", "3">>

\* C2: the assignment text does not depend on the payload's values: any
\* payload with the same keys in the same order gives, with the same alias
\* map, the same setCols.
C2_TextIndependentOfValues ==
    SqlBuilt =>
        \A other \in Payloads :
            ObjectKeys(other) = ObjectKeys(call.dataToUpdate) =>
                sqlForPartialUpdate(other, call.jsToSql).value.setCols = ret.value.setCols

C2_Witness ==
    /\ SqlBuilt
    /\ Len(call.dataToUpdate) = 2
    /\ call.dataToUpdate[1].v = Str(<<"C", "1">>)
    /\ call.dataToUpdate[2].v = Num(1)
    /\ \E other \in Payloads :
          /\ ObjectKeys(other) = ObjectKeys(call.dataToUpdate)
          /\ ObjectValues(other) # ObjectValues(call.dataToUpdate)

NoData(op) == call.op = op /\ Len(call.data) = 0

\* C3 as stated: sqlForPartialUpdate with a payload without keys fails with
\* BadRequestError for any alias map, and so do Job.update and Company.update
\* with empty data, whatever the identifier.
C3_EmptyDataIsBadRequest ==
    /\ (SqlReturned /\ Len(call.dataToUpdate) = 0) => ret.status = "BadRequestError"
    /\ NoData("Job.update") => ret.status = "BadRequestError"
    /\ NoData("Company.update") => ret.status = "BadRequestError"

\* C3 (amended): sqlForPartialUpdate with a payload without keys fails with
\* BadRequestError for any alias map and returns no clause; Company.update
\* with empty data, and Job.update with empty data and an id that is a
\* number, fail with BadRequestError before any statement is sent and leave
\* the tables as they were.  Job.update with a non-numeric id fails with
\* NotFoundError first.
C3_EmptyDataIsBadRequestForNumericId ==
    /\ (SqlReturned /\ Len(call.dataToUpdate) = 0) =>
          ret = [status |-> "BadRequestError"]
    /\ (NoData("Job.update") /\ ~IsNaN(call.id)) =>
          ret.status = "BadRequestError" /\ queries = <<>>
    /\ (NoData("Job.update") /\ IsNaN(call.id)) =>
          ret.status = "NotFoundError" /\ queries = <<>>
    /\ NoData("Company.update") =>
          ret.status = "BadRequestError" /\ queries = <<>>

C3_Witness ==
    /\ NoData("Job.update")
    /\ call.id = Num(1)
    /\ \E row \in jobs : row.id = Num(1)
    /\ ret.status = "BadRequestError"

(***************************************************************************)
(* Claims about the listings.                                              *)
(***************************************************************************)
\* The text the last statement carries between FROM <table> and ORDER BY.
Clause == SubSeq(queries[1].text, 2, Len(queries[1].text) - 1)
Blank(text) == Len(SkipSpaces(text)) = 0
Count(text, chunk) == Cardinality({i \in 1..Len(text) : text[i] = chunk})
Listed == {ret.value[i] : i \in 1..Len(ret.value)}

JobFiltered == call.op = "Job.findAll" /\ Truthy(call.filters)
CompanyFiltered == call.op = "Company.findAll" /\ Truthy(call.filters)

\* C5: {hasEquity: false} alone gives a clause without WHERE or AND and
\* without a predicate, and {hasEquity: false, title: t} gives a clause whose
\* only predicate is the title match, prefixed with WHERE and not with AND.
C5_HasEquityFalseLeavesWhereSlot ==
    JobFiltered =>
        LET e == call.filters.entries
        IN /\ (Len(e) = 1 /\ e[1].k = "hasEquity" /\ ~e[1].v.b) => Blank(Clause)
           /\ (Len(e) = 2 /\ e[1].k = "hasEquity" /\ ~e[1].v.b /\ e[2].k = "title") =>
                 /\ SkipSpaces(Clause)[1] = "\nWHERE"
                 /\ ~Occurs(Clause, "\nAND")
                 /\ ParseClause(Clause, TRUE) =
                       [ok |-> TRUE,
                        preds |-> <<[col |-> "title", op |-> "ilike", arg |-> e[2].v]>>]

\* C6: for every job filter object over title, minSalary and hasEquity the
\* clause is blank or is WHERE p1 AND p2 ... : one WHERE before the first
\* emitted predicate, AND before each later one, never AND first, and no WHERE
\* or AND without a predicate after it.
C6_JobClauseWellFormed ==
    JobFiltered =>
        /\ Blank(Clause) \/ SkipSpaces(Clause)[1] = "\nWHERE"
        /\ Count(Clause, "\nWHERE") <= 1
        /\ ParseClause(Clause, TRUE).ok

\* C7: Company.findAll with minEmployees and maxEmployees both present and
\* minEmployees >= maxEmployees fails with BadRequestError and sends no
\* statement.
C7_EmptyRangeRejected ==
    (/\ CompanyFiltered
     /\ HasKey(call.filters.entries, "minEmployees")
     /\ HasKey(call.filters.entries, "maxEmployees")
     /\ Prop(call.filters.entries, "minEmployees").n
           >= Prop(call.filters.entries, "maxEmployees").n)
    => (ret = [status |-> "BadRequestError"] /\ queries = <<>>)

C7_Witness ==
    /\ CompanyFiltered
    /\ companies # {}
    /\ Prop(call.filters.entries, "minEmployees") = Num(2)
    /\ Prop(call.filters.entries, "maxEmployees") = Num(2)
    /\ ret.status = "BadRequestError"

\* C8: without a filter object Job.findAll and Company.findAll send their
\* SELECT with nothing between the table and ORDER BY and return every row of
\* the table, each once.
C8_NoFilterListsEveryRow ==
    /\ (call.op = "Job.findAll" /\ call.filters = Null) =>
          /\ queries[1].text = <<JobSelectHead, " ORDER BY title">>
          /\ ret.status = "ok"
          /\ Listed = {JobView(row) : row \in jobs}
          /\ Len(ret.value) = Cardinality(jobs)
    /\ (call.op = "Company.findAll" /\ call.filters = Null) =>
          /\ queries[1].text = <<CompanySelectHead, " ORDER BY name">>
          /\ ret.status = "ok"
          /\ Listed = {CompanyView(row) : row \in companies}
          /\ Len(ret.value) = Cardinality(companies)

C8_Witness ==
    /\ call.op = "Company.findAll"
    /\ call.filters = Null
    /\ jobs # {}
    /\ ret.status = "ok"
    /\ Len(ret.value) = 2
    /\ ret.value[1].name = Str(<<"C", "1">>)
    /\ ret.value[2].name = Str(<<"c", "2">>)

\* What a company filter key asks of a row.
CompanyPredicate(key, value) ==
    CASE key = "name" -> [col |-> "name", op |-> "ilike", arg |-> value]
      [] key = "minEmployees" -> [col |-> "num_employees", op |-> ">=", arg |-> value]
      [] key = "maxEmployees" -> [col |-> "num_employees", op |-> "<", arg |-> value]

RangeValid(e) ==
    ~(/\ HasKey(e, "minEmployees")
      /\ HasKey(e, "maxEmployees")
      /\ Prop(e, "minEmployees").n >= Prop(e, "maxEmployees").n)

\* C9: for every company filter object over name, minEmployees and
\* maxEmployees that passes range validation, the clause is the conjunction
\* in key order of one predicate per key (name: case-insensitive substring,
\* minEmployees: num_employees >= value, maxEmployees: num_employees < value),
\* WHERE before the first and AND before each later one.
C9_CompanyClausePerKey ==
    (CompanyFiltered /\ RangeValid(call.filters.entries)) =>
        LET e == call.filters.entries
        IN /\ Len(queries) = 1
           /\ ParseClause(Clause, TRUE) =
                 [ok |-> TRUE,
                  preds |-> [i \in 1..Len(e) |-> CompanyPredicate(e[i].k, e[i].v)]]
           /\ Count(Clause, "\nWHERE") = (IF Len(e) = 0 THEN 0 ELSE 1)
           /\ Count(Clause, "\nAND") = (IF Len(e) = 0 THEN 0 ELSE Len(e) - 1)
           /\ Len(e) > 0 => Clause[1] = "\nWHERE"
           /\ ret.status = "ok"
           /\ Listed = {CompanyView(row) : row \in
                          {r \in companies :
                              \A i \in 1..Len(e) :
                                  Satisfies(r, CompanyPredicate(e[i].k, e[i].v))}}

C9_Witness ==
    /\ CompanyFiltered
    /\ ObjectKeys(call.filters.entries) = <<"maxEmployees", "name", "minEmployees">>
    /\ ObjectValues(call.filters.entries) = <<Num(2), Str(<<"C">>), Num(1)>>
    /\ ret.status = "ok"
    /\ Len(ret.value) = 1
    /\ ret.value[1].numEmployees = Num(1)

\* What a job filter object asks of a row.
JobSatisfies(row, e) ==
    \A i \in 1..Len(e) :
        CASE e[i].k = "title" ->
                 Contains(Lower(row.title.s), Lower(e[i].v.s))
          [] e[i].k = "minSalary" ->
                 row.salary.type = "number" /\ row.salary.n >= e[i].v.n
          [] e[i].k = "hasEquity" ->
                 e[i].v.b => (row.equity.type = "number" /\ row.equity.n > 0)

\* C10: for every job filter object over title, minSalary and hasEquity and
\* every table content Job.findAll succeeds and returns exactly the jobs that
\* satisfy every supplied filter; hasEquity false restricts nothing.
C10_JobFindAllReturnsMatches ==
    JobFiltered =>
        /\ ret.status = "ok"
        /\ Listed = {JobView(row) : row \in
                       {r \in jobs : JobSatisfies(r, call.filters.entries)}}

(***************************************************************************)
(* Claims about update, get and remove, checked under Spec.                *)
(***************************************************************************)

UpdateCall == call.op \in {"Job.update", "Company.update"}
Identifier == IF call.op = "Job.update" THEN call.id ELSE call.handle
WhereChunk == IF call.op = "Job.update" THEN " WHERE id = " ELSE " WHERE handle = "
\* What the statement writes between WHERE <key> = and RETURNING.
WhereOperand(text) == SubSeq(text, FirstIndex(text, WhereChunk) + 1, Len(text) - 1)

\* C11: each update that sends a statement writes its row restriction with
\* the placeholder $(n+1), n being the number of values of the SET clause,
\* and sends as parameters those values followed by the row identifier, so
\* the identifier is not part of the statement's text.
C11_IdentifierIsLastParameter ==
    (UpdateCall /\ Len(queries) = 1) =>
        /\ WhereOperand(queries[1].text) = <<"$">> \o Digits(Len(call.data) + 1)
        /\ queries[1].params = ObjectValues(call.data) \o <<Identifier>>

JobOp(c) == c.op \in {"Job.get", "Job.update", "Job.remove"}
\* The rows of the operation's table that its identifier designates.
RowsOf(c, js, cs) ==
    IF JobOp(c) THEN {row \in js : KeyEquals(row.id, c.id)}
    ELSE {row \in cs : KeyEquals(row.handle, c.handle)}
TableOf(c, js, cs) == IF JobOp(c) THEN js ELSE cs
ViewOf(c, row) == IF JobOp(c) THEN JobView(row) ELSE CompanyView(row)
StoreUnchanged == jobs' = jobs /\ companies' = companies
\* A step that runs an update from the idle state.
UpdateStep == ret = Idle /\ call'.op \in {"Job.update", "Company.update"}
\* The id is rejected by Job's isNaN test.
RejectedId(c) == JobOp(c) /\ IsNaN(c.id)

\* The outcome of an update whose identifier designates no row: the data
\* is examined first (C3), then the row is looked for.
Missing(c) ==
    IF Len(c.data) = 0 /\ ~RejectedId(c) THEN "BadRequestError" ELSE "NotFoundError"

\* C12: an update that succeeds on an existing row stores the new value of
\* every field named in data (null included), leaves every other field and
\* every other row as they were and returns the stored row; an update with
\* data whose identifier designates no row fails with NotFoundError; and an
\* update that fails leaves the store unchanged.
C12_UpdateIsPartial ==
    [][LET c == call'
           old == RowsOf(c, jobs, companies)
       IN UpdateStep =>
           /\ IF JobOp(c) THEN companies' = companies ELSE jobs' = jobs
           /\ ret'.status # "ok" => StoreUnchanged
           /\ old = {} => ret'.status = Missing(c)
           /\ (old # {} /\ ret'.status = "ok") =>
                 \E before \in old, after \in TableOf(c, jobs', companies') :
                    /\ TableOf(c, jobs', companies') \ {after} = TableOf(c, jobs, companies) \ old
                    /\ ret'.value = ViewOf(c, after)
                    /\ \A f \in DOMAIN ViewOf(c, after) :
                          ViewOf(c, after)[f] = IF HasKey(c.data, f) THEN Prop(c.data, f)
                                                ELSE ViewOf(c, before)[f]]_vars

(***************************************************************************)
(* Claims about companies, checked under SpecCompany.                      *)
(***************************************************************************)

UniqueHandles(cs) == \A a, b \in cs : a.handle = b.handle => a = b
CreateStep == ret = Idle /\ call'.op = "Company.create"

\* C13: Company.create with a handle that is stored fails with
\* BadRequestError and leaves the store unchanged; with a new handle it adds
\* exactly one row, the one it returns; and across create, update and remove
\* no two stored companies share a handle.
C13_HandlesStayUnique ==
    [][/\ UniqueHandles(companies) /\ UniqueHandles(companies')
       /\ CreateStep =>
             LET handle == call'.data.handle
             IN IF \E c \in companies : c.handle = handle
                THEN ret'.status = "BadRequestError" /\ StoreUnchanged
                ELSE /\ ret'.status = "ok"
                     /\ jobs' = jobs
                     /\ \E row \in companies' \ companies :
                           /\ companies' = companies \cup {row}
                           /\ row.handle = handle
                           /\ CompanyView(row) = ret'.value
                           /\ ret'.value = call'.data]_vars

\* A create was refused for a handle that is stored with other data, while
\* the other handle is stored too.
C13_Witness ==
    /\ call.op = "Company.create"
    /\ ret.status = "BadRequestError"
    /\ Cardinality(companies) = 2
    /\ \E c \in companies : c.handle = call.data.handle /\ CompanyView(c) # call.data

(***************************************************************************)
(* Claims about remove and about ids, checked under Spec.                  *)
(***************************************************************************)

ByIdentifier ==
    {"Job.get", "Job.update", "Job.remove", "Company.get", "Company.update", "Company.remove"}
Removes == {"Job.remove", "Company.remove"}
Updates == {"Job.update", "Company.update"}
\* A step that runs, from the idle state, an operation that names one row.
IdentifierStep == ret = Idle /\ call'.op \in ByIdentifier
Handles == {C1Handle, C2Handle}
HasJob(js, n) == \E row \in js : row.id = Num(n)
HasCompany(cs, handle) == \E row \in cs : row.handle = handle

\* The identifier can designate a row: a handle, or an id that reads as one
\* of the numbers the store hands out.
Designates(c) == ~JobOp(c) \/ \E n \in 1..(MaxJobs + 1) : KeyEquals(Num(n), c.id)

\* C14: a remove that finds its row succeeds and leaves the row absent and
\* every other row of the table in place; a remove that finds no row fails
\* with NotFoundError and changes nothing; while an identifier has no row
\* every get and remove of it, and every update of it with data, fails with
\* NotFoundError; and only a create makes an absent identifier present again.
C14_RemoveIsFinal ==
    [][LET c == call'
           old == RowsOf(c, jobs, companies)
       IN /\ (IdentifierStep /\ c.op \in Removes) =>
                /\ old = {} => (ret'.status = "NotFoundError" /\ StoreUnchanged)
                /\ old # {} =>
                      /\ ret'.status = "ok"
                      /\ RowsOf(c, jobs', companies') = {}
                      /\ TableOf(c, jobs', companies') = TableOf(c, jobs, companies) \ old
          /\ (IdentifierStep /\ Designates(c) /\ old = {}) =>
                ret'.status = IF c.op \in Updates THEN Missing(c) ELSE "NotFoundError"
          /\ \A n \in 1..(MaxJobs + 1) :
                (~HasJob(jobs, n) /\ HasJob(jobs', n)) => call'.op = "Job.create"
          /\ \A handle \in Handles :
                (~HasCompany(companies, handle) /\ HasCompany(companies', handle)) =>
                    (call'.op = "Company.create" /\ call'.data.handle = handle)]_vars

\* Number(v) is NaN because of a character: v is a string with a character
\* that is neither a digit nor a space.
NotANumber(v) ==
    v.type = "string" /\ \E i \in DOMAIN v.s : ~IsDigit(v.s[i]) /\ v.s[i] # " "

\* The id in the text of the statement Job.update sent has no such character.
JobUpdateTextIsNumeric ==
    (call.op = "Job.update" /\ Len(queries) = 1) =>
        /\ ~NotANumber(call.id)
        /\ ~NotANumber(Str(WhereOperand(queries[1].text)))

PrefixPlaces(text) == {i \in 1..Len(text) : text[i] \in {"\nWHERE", "\nAND"}}
NthPlace(places, k) == CHOOSE p \in places : Cardinality({q \in places : q < p}) = k - 1
\* The text between the k-th prefix and the next one (or the end).
PieceAfter(text, k) ==
    LET places == PrefixPlaces(text)
        from == NthPlace(places, k)
        upto == IF k < Cardinality(places) THEN NthPlace(places, k + 1) - 1 ELSE Len(text)
    IN SubSeq(text, from + 1, upto)
Comparison(op, value) == <<" ", "num_employees ", op, " ">> \o ToStr(value)

\* C16: for every company filter object that passes range validation a
\* statement is sent whose clause has one prefix per key of the object,
\* WHERE for the first key and AND for each later one, followed in key order
\* by the predicate of that key: the substring match for name,
\* num_employees >= value for minEmployees and num_employees < value for
\* every other key, known (maxEmployees) or not; without keys the clause is
\* empty.
C16_EveryKeyEmitsAPredicate ==
    (CompanyFiltered /\ RangeValid(call.filters.entries)) =>
        LET e == call.filters.entries
        IN /\ Len(queries) = 1
           /\ Cardinality(PrefixPlaces(Clause)) = Len(e)
           /\ Len(e) = 0 => Clause = <<>>
           /\ \A k \in 1..Len(e) :
                 /\ Clause[NthPlace(PrefixPlaces(Clause), k)] =
                       (IF k = 1 THEN "\nWHERE" ELSE "\nAND")
                 /\ PieceAfter(Clause, k) =
                       CASE e[k].k = "name" ->
                               <<" ", "lower(name) LIKE lower('%' || '">>
                                   \o ToStr(e[k].v) \o <<"' || '%')">>
                         [] e[k].k = "minEmployees" -> Comparison(">=", e[k].v)
                         [] OTHER -> Comparison("<", e[k].v)

\* A listing was asked with an unknown key between two known ones, and the
\* store answered.
C16_Witness ==
    /\ CompanyFiltered
    /\ ObjectKeys(call.filters.entries) = <<"minEmployees", "industry", "name">>
    /\ Prop(call.filters.entries, "industry") = Num(2)
    /\ Len(queries) = 1
    /\ Count(Clause, "\nAND") = 2
    /\ ret.status = "ok"
    /\ companies # {}

====
